---- MODULE Spec2Model ----
(***************************************************************************)
(* A model of the portfolio site's front-end scripts.  This part covers    *)
(* SkillsManager (assets/js/skills-manager.js) and the DOMContentLoaded    *)
(* handler of assets/js/main.js that drives it.                            *)
(*                                                                         *)
(* One TLA+ step is one browser task together with the microtasks it       *)
(* leaves behind, except that the settling of loadSkillsData() and the     *)
(* continuation of init() after its await are two steps (two microtasks);  *)
(* no other step is enabled between them.                                  *)
(***************************************************************************)
EXTENDS Integers, Sequences, FiniteSets, TLC

\* ------------------------------------------------------------------ bounds

\* Retry clicks on the warning banner's button.
MaxRetries == 1
\* Calls of updateSkillLevel.
MaxUpdates == 1
\* Calls of loadFromLocalStorage.
MaxRestores == 1
\* Calls of saveToLocalStorage by the page.
MaxSaves == 1
\* Submit events of the contact form.
MaxSubmits == 2
\* Clicks on a project filter button.
MaxFilterClicks == 2
\* Clicks on the Retry button of the project grid's error message.
MaxProjectRetries == 1
\* Clicks on a skills tab.
MaxTabClicks == 1
\* Keys pressed on a skills tab.
MaxTabKeys == 2
\* Clicks on a link of the navigation menu.
MaxLinkClicks == 2
\* Visibility callbacks delivered by the host.
MaxIntersects == 2
\* Animation frames a count-up of `duration` ms is spread over.
AnimSteps == 2
\* Tabs (and panels) of the static page.
NumTabs == 3
\* Attachment points the page may lack.
MaxAbsent == 1

\* ------------------------------------------------------------ JSON values

\* The highest level of a record.
MaxLevel == 100

Skill(n, l, y) == [name |-> n, level |-> l, years |-> y]

\* An object carrying a `skills` mapping.
Dataset(m) == [kind |-> "object", skills |-> <<m>>]

\* JSON null and the object {} (no `skills` property).
JsonNull == [kind |-> "null", skills |-> <<>>]
JsonEmptyObject == [kind |-> "object", skills |-> <<>>]

Categories == <<"frontend", "backend", "tools", "softSkills">>

getFallbackSkillsData ==
    Dataset([frontend |-> << Skill("HTML5", 95, <<5>>),
                             Skill("CSS3", 90, <<5>>),
                             Skill("JavaScript", 92, <<4>>) >>,
             backend |-> << Skill("Node.js", 88, <<3>>),
                            Skill("Python", 85, <<4>>),
                            Skill("MongoDB", 80, <<3>>) >>,
             tools |-> << Skill("Git", 90, <<4>>),
                          Skill("Docker", 75, <<2>>),
                          Skill("AWS", 70, <<2>>) >>,
             softSkills |-> << Skill("Problem Solving", 95, <<>>),
                               Skill("Team Collaboration", 90, <<>>),
                               Skill("Communication", 88, <<>>) >>])

\* Bodies data/skills.json may hold when it parses: a dataset with the four
\* categories (one of them empty), null, and {}.
ServerDataset ==
    Dataset([frontend |-> << Skill("HTML5", 80, <<1>>), Skill("Vue", 55, <<>>) >>,
             backend |-> << >>,
             tools |-> << Skill("Git", 90, <<4>>) >>,
             softSkills |-> << Skill("Communication", 88, <<>>) >>])

JsonBodies == {ServerDataset, JsonNull, JsonEmptyObject}

\* The four categories, every one of them empty.
EmptyDataset ==
    Dataset([frontend |-> << >>, backend |-> << >>,
             tools |-> << >>, softSkills |-> << >>])

\* A dataset with one technical record of level `level`.
TierDataset(level) ==
    Dataset([frontend |-> << Skill("HTML5", level, <<1>>) >>,
             backend |-> << >>,
             tools |-> << >>,
             softSkills |-> << >>])

TierBodies == {TierDataset(level) : level \in 0..MaxLevel}

\* The ways a fetch of data/skills.json fails: a rejection, a non-ok
\* response, a body that is not JSON.
FailureOutcomes == {"reject", "notOk", "parseError"}

\* Truthiness of this.skillsData.
Truthy(v) == v.kind # "null"

HasSkills(v) == v.kind = "object" /\ Len(v.skills) = 1

\* Names every object inherits from Object.prototype (those used as inputs).
ObjectPrototypeKeys == {"toString", "constructor"}

\* obj[key] on the skills mapping: an own array, an inherited function, or
\* undefined.
GetProperty(m, key) ==
    IF key \in DOMAIN m THEN [t |-> "array", v |-> m[key]]
    ELSE IF key \in ObjectPrototypeKeys THEN [t |-> "function", v |-> <<>>]
    ELSE [t |-> "undefined", v |-> <<>>]

\* ------------------------------------------------------------------- DOM

ContainerId(category) ==
    IF category = "softSkills" THEN "softskills-badges"
    ELSE IF category = "frontend" THEN "frontend-skills"
    ELSE IF category = "backend" THEN "backend-skills"
    ELSE "tools-skills"

ContainerIds == {ContainerId(Categories[i]) : i \in 1..Len(Categories)}

CategoryOf(cid) == CHOOSE c \in {Categories[i] : i \in 1..Len(Categories)} :
                       ContainerId(c) = cid

StatIds == {"total-skills", "avg-proficiency", "total-years"}

\* Every element the scripts look up.
AttachPoints == ContainerIds \cup StatIds \cup {".skills", ".container", "tabs"}

getProficiencyClass(level) ==
    IF level >= 90 THEN "skill--expert"
    ELSE IF level >= 75 THEN "skill--advanced"
    ELSE IF level >= 60 THEN "skill--intermediate"
    ELSE "skill--beginner"

\* The tiers with their lower boundaries excluded.
getProficiencyLabelExclusive(level) ==
    IF level > 90 THEN "Expert"
    ELSE IF level > 75 THEN "Advanced"
    ELSE IF level > 60 THEN "Intermediate"
    ELSE "Beginner"

getProficiencyLabel(level) ==
    IF level >= 90 THEN "Expert"
    ELSE IF level >= 75 THEN "Advanced"
    ELSE IF level >= 60 THEN "Intermediate"
    ELSE "Beginner"

\* The years label of a technical skill: absent for a missing or zero years.
YearsLabel(skill) ==
    IF Len(skill.years) = 1 /\ skill.years[1] # 0
    THEN <<skill.years[1], IF skill.years[1] = 1 THEN "year" ELSE "years">>
    ELSE <<>>

\* One rendered .skill element: its data-skill-level, its labels, the
\* progress bar's width (percent), the inline opacity ("" when unset), and
\* how many times a visibility callback has animated it (capped at 2).
createSkillElement(skill) ==
    [kind |-> "skill", cls |-> getProficiencyClass(skill.level),
     name |-> skill.name, level |-> skill.level, yearsLabel |-> YearsLabel(skill),
     label |-> getProficiencyLabel(skill.level),
     width |-> 0, opacity |-> "", fired |-> 0]

\* One rendered .soft-skill-badge element.
createSoftSkillBadge(skill) ==
    [kind |-> "soft-skill-badge", cls |-> getProficiencyClass(skill.level),
     name |-> skill.name, level |-> skill.level, yearsLabel |-> <<>>,
     label |-> "",
     width |-> 0, opacity |-> "", fired |-> 0]

\* --------------------------------------------------------------- variables

VARIABLES
    skillsData,     \* this.skillsData
    initialized,    \* this.initialized
    domLoaded,      \* DOMContentLoaded has been dispatched
    calls,          \* init() calls in flight: how many await the fetch, how
                    \* many await response.json(), and the one (if any) whose
                    \* loadSkillsData() has just settled: [outcome, rejected]
    storage,        \* localStorage['portfolio-skills']: <<>> or <<text>>
    present,        \* the attachment points the page has
    containers,     \* container id -> its rendered elements
    warnings,       \* .skills__warning banners in the page
    observers,      \* IntersectionObservers that still track an element
    widthTimers,    \* pending 200 ms timers, oldest first: [el, level]
    tabTimers,      \* pending 100 ms timers of the tab click handler
    statText,       \* stat id -> textContent
    raf,            \* requestAnimationFrame callbacks, in registration order
    tabListeners,   \* click listeners initTabs has put on every tab
    tabActive,      \* tabs with class active
    tabSelected,    \* tabs with aria-selected "true"
    panelActive,    \* panels with class active
    panelHidden,    \* panels with the hidden attribute
    theme,          \* the colour theme: the data-theme attribute, the
                    \* toggle handler's currentTheme, the text stored under
                    \* 'portfolio-theme' (<<>> or <<text>>), the system's
                    \* prefers-color-scheme: dark
    projects,       \* the project grid: the state of loadProjects(), the
                    \* cards, the click listeners on each filter button, the
                    \* active button, the pending timers in the order set
    form,           \* the contact form: the submit button's label and
                    \* disabled flag, the success message and the global
                    \* error, the pending timers in the order set
    nav,            \* the mobile navigation: which of its elements the
                    \* page has, whether initNavigation() has added its
                    \* listeners, aria-expanded of the hamburger, the
                    \* classes active (hamburger, menu, overlay) and
                    \* menu-open (body), whether innerWidth > 768, the
                    \* pending resize timer and the pending scroll timers
    panels,         \* the tabs whose panel element the page has
    budget,         \* how many more of each bounded event may happen
    last            \* the call that came to its end in the last step: its
                    \* arguments and what it returned

vars == <<skillsData, initialized, domLoaded, calls, storage, present,
          containers, warnings, observers, widthTimers, tabTimers, statText,
          raf, tabListeners, tabActive, tabSelected, panelActive, panelHidden,
          theme, projects, form, nav, panels, budget, last>>

Tabs == 1..NumTabs

\* The text of a stat element the scripts have not written yet.
StaticText == [n |-> -1, suffix |-> ""]

\* -------------------------------------------------------- pure operations

Min(a, b) == IF a < b THEN a ELSE b
Max(a, b) == IF a > b THEN a ELSE b

\* The elements of a container after renderTechnicalSkills/renderSoftSkills.
RenderedElements(category, skills) ==
    [i \in 1..Len(skills) |->
        IF category = "softSkills" THEN createSoftSkillBadge(skills[i])
        ELSE createSkillElement(skills[i])]

\* A renderSkills() that adds to what a container holds.
renderSkillsAppending(data, conts, pres) ==
    IF ~Truthy(data) THEN [threw |-> FALSE, containers |-> conts]
    ELSE IF ~HasSkills(data) THEN [threw |-> TRUE, containers |-> conts]
    ELSE [threw |-> FALSE,
          containers |->
            [cid \in ContainerIds |->
                LET p == GetProperty(data.skills[1], CategoryOf(cid)) IN
                IF p.t = "undefined" \/ cid \notin pres THEN conts[cid]
                ELSE conts[cid] \o RenderedElements(CategoryOf(cid), p.v)]]

\* renderSkills(): the containers afterwards, or the TypeError of reading a
\* category of an undefined `skills`.
renderSkills(data, conts, pres) ==
    IF ~Truthy(data) THEN [threw |-> FALSE, containers |-> conts]
    ELSE IF ~HasSkills(data) THEN [threw |-> TRUE, containers |-> conts]
    ELSE [threw |-> FALSE,
          containers |->
            [cid \in ContainerIds |->
                LET p == GetProperty(data.skills[1], CategoryOf(cid)) IN
                IF p.t = "undefined" \/ cid \notin pres THEN conts[cid]
                ELSE RenderedElements(CategoryOf(cid), p.v)]]

\* Every element '.skill, .soft-skill-badge' selects, as <<container, index>>.
AllElements(conts) ==
    UNION {{<<cid, i>> : i \in 1..Len(conts[cid])} : cid \in ContainerIds}

\* The containers a renderSkills() on `data` writes.  Observers and timers
\* lose the elements it replaces: a detached element never intersects and
\* its width is no longer displayed.
Rewritten(data, pres) ==
    IF ~HasSkills(data) THEN {}
    ELSE {cid \in ContainerIds \cap pres :
            GetProperty(data.skills[1], CategoryOf(cid)).t # "undefined"}

DropTargets(obs, cids) ==
    SelectSeq([i \in 1..Len(obs) |->
                 [obs[i] EXCEPT !.targets = {t \in @ : t[1] \notin cids}]],
              LAMBDA o : o.targets # {})

DropTimers(timers, cids) == SelectSeq(timers, LAMBDA t : t.el[1] \notin cids)

\* SkillsManager.initSkillAnimations(): hides every element and observes it
\* with a new observer.
initSkillAnimations(conts, obs) ==
    [containers |->
        [cid \in ContainerIds |->
            [i \in 1..Len(conts[cid]) |-> [conts[cid][i] EXCEPT !.opacity = "0"]]],
     observers |->
        IF AllElements(conts) = {} THEN obs
        ELSE Append(obs, [src |-> "manager", targets |-> AllElements(conts)])]

RECURSIVE SumLevels(_), SumYears(_)
SumLevels(skills) ==
    IF skills = <<>> THEN 0 ELSE Head(skills).level + SumLevels(Tail(skills))
SumYears(skills) ==
    IF skills = <<>> THEN 0
    ELSE (IF Len(Head(skills).years) = 1 THEN Head(skills).years[1] ELSE 0)
         + SumYears(Tail(skills))

\* Object.values(skills) with the arrays laid end to end (category.forEach
\* inside forEach), keys in insertion order.
RECURSIVE AllSkills(_, _)
AllSkills(m, keys) ==
    IF keys = <<>> THEN <<>>
    ELSE (IF Head(keys) \in DOMAIN m THEN m[Head(keys)] ELSE <<>>)
         \o AllSkills(m, Tail(keys))

\* The aggregates calculateAndDisplayStats computes.
TotalSkills(m) == Len(AllSkills(m, Categories))
TotalProficiency(m) == SumLevels(AllSkills(m, Categories))
TotalYears(m) == SumYears(AllSkills(m, Categories))
\* The quotient cut off instead of rounded.
AverageTruncated(m) == TotalProficiency(m) \div TotalSkills(m)

\* Math.round of a non-negative quotient.
Average(m) == (2 * TotalProficiency(m) + TotalSkills(m)) \div (2 * TotalSkills(m))

\* animateValue(element, 0, end, 1000, suffix): a callback waiting for its
\* first frame.
animateValue(el, end, suffix) ==
    [el |-> el, end |-> end, suffix |-> suffix, elapsed |-> -1]

\* calculateAndDisplayStats(): the stat texts and frame callbacks afterwards.
calculateAndDisplayStats(data, texts, frames, pres) ==
    IF ~Truthy(data) THEN [threw |-> FALSE, statText |-> texts, raf |-> frames]
    ELSE IF ~HasSkills(data) THEN [threw |-> TRUE, statText |-> texts, raf |-> frames]
    ELSE
      LET m == data.skills[1]
          f1 == IF "total-skills" \in pres
                THEN <<animateValue("total-skills", TotalSkills(m), "")>> ELSE <<>>
          f2 == IF "avg-proficiency" \in pres /\ TotalSkills(m) > 0
                THEN <<animateValue("avg-proficiency", Average(m), "%")>> ELSE <<>>
          f3 == IF "total-years" \in pres
                THEN <<animateValue("total-years", TotalYears(m), "")>> ELSE <<>>
      IN [threw |-> FALSE,
          statText |->
            [s \in StatIds |->
               IF s = "total-skills" /\ f1 # <<>>
                 THEN [n |-> TotalSkills(m), suffix |-> ""]
               ELSE IF s = "avg-proficiency" /\ f2 # <<>>
                 THEN [n |-> Average(m), suffix |-> "%"]
               ELSE IF s = "total-years" /\ f3 # <<>>
                 THEN [n |-> TotalYears(m), suffix |-> ""]
               ELSE texts[s]],
          raf |-> frames \o f1 \o f2 \o f3]

\* main.js initSkillAnimations(): observes the '.skill' elements of the page.
mainInitSkillAnimations(conts, obs) ==
    LET targets == {e \in AllElements(conts) : conts[e[1]][e[2]].kind = "skill"}
    IN IF targets = {} THEN obs
       ELSE Append(obs, [src |-> "main", targets |-> targets])

\* The clamp without its lower bound.
ClampLevelUpperOnly(newLevel) == Min(100, newLevel)

\* Math.min(100, Math.max(0, newLevel)).
ClampLevel(newLevel) == Min(100, Max(0, newLevel))

\* Array.prototype.find on s.name === skillName: the first index, or 0.
FindByName(skills, skillName) ==
    IF \E i \in 1..Len(skills) : skills[i].name = skillName
    THEN CHOOSE i \in 1..Len(skills) :
            /\ skills[i].name = skillName
            /\ \A j \in 1..(i - 1) : skills[j].name # skillName
    ELSE 0

\* updateSkillLevel up to the assignment of the level: what it returns
\* ("go on" when the record was found and changed) and the dataset.
updateSkillLevel(data, category, skillName, newLevel) ==
    IF ~Truthy(data) THEN [ret |-> "false", data |-> data]
    ELSE IF ~HasSkills(data) THEN [ret |-> "threw", data |-> data]
    ELSE LET p == GetProperty(data.skills[1], category) IN
         IF p.t = "undefined" THEN [ret |-> "false", data |-> data]
         ELSE IF p.t = "function" THEN [ret |-> "threw", data |-> data]
         ELSE LET i == FindByName(p.v, skillName) IN
              IF i = 0 THEN [ret |-> "false", data |-> data]
              ELSE [ret |-> "go on",
                    data |-> Dataset([data.skills[1] EXCEPT
                               ![category][i].level = ClampLevel(newLevel)])]

\* loadSkillsData() without its try/catch: a failure rejects the promise and
\* leaves this.skillsData alone.
loadSkillsDataNoCatch(outcome, body, data) ==
    IF outcome = "body" THEN [rejected |-> FALSE, skillsData |-> body]
    ELSE [rejected |-> TRUE, skillsData |-> data]

\* loadSkillsData() once the fetch has come to `outcome`: whether the
\* promise it returns rejects, and this.skillsData afterwards.
loadSkillsData(outcome, body, data) ==
    IF outcome = "body" THEN [rejected |-> FALSE, skillsData |-> body]
    ELSE [rejected |-> FALSE, skillsData |-> getFallbackSkillsData]

\* ----------------------------------------------------------- JSON text

Tok(t, v) == [t |-> t, v |-> v]

\* The serialisation of a record without its optional field.
StringifySkillNoYears(skill) ==
    <<Tok("p", "{"), Tok("s", "name"), Tok("s", skill.name),
      Tok("s", "level"), Tok("n", skill.level), Tok("p", "}")>>

StringifySkill(skill) ==
    <<Tok("p", "{"), Tok("s", "name"), Tok("s", skill.name),
      Tok("s", "level"), Tok("n", skill.level)>>
    \o (IF Len(skill.years) = 1
        THEN <<Tok("s", "years"), Tok("n", skill.years[1])>> ELSE <<>>)
    \o <<Tok("p", "}")>>

RECURSIVE StringifyArray(_)
StringifyArray(skills) ==
    IF skills = <<>> THEN <<>>
    ELSE StringifySkill(Head(skills)) \o StringifyArray(Tail(skills))

RECURSIVE StringifyMap(_, _)
StringifyMap(m, keys) ==
    IF keys = <<>> THEN <<>>
    ELSE (IF Head(keys) \in DOMAIN m
          THEN <<Tok("s", Head(keys)), Tok("p", "[")>>
               \o StringifyArray(m[Head(keys)]) \o <<Tok("p", "]")>>
          ELSE <<>>)
         \o StringifyMap(m, Tail(keys))

\* JSON.stringify(this.skillsData), as the tokens of the text.
JSONstringify(v) ==
    IF v.kind = "null" THEN <<Tok("p", "null")>>
    ELSE IF ~HasSkills(v) THEN <<Tok("p", "{"), Tok("p", "}")>>
    ELSE <<Tok("p", "{"), Tok("s", "skills"), Tok("p", "{")>>
         \o StringifyMap(v.skills[1], Categories)
         \o <<Tok("p", "}"), Tok("p", "}")>>

IsTok(toks, i, t, v) == i <= Len(toks) /\ toks[i].t = t /\ toks[i].v = v

\* One skill object starting at token i: [ok, val, next].
ParseSkill(toks, i) ==
    IF /\ IsTok(toks, i, "p", "{") /\ IsTok(toks, i + 1, "s", "name")
       /\ i + 4 <= Len(toks) /\ toks[i + 2].t = "s"
       /\ IsTok(toks, i + 3, "s", "level") /\ toks[i + 4].t = "n"
    THEN IF IsTok(toks, i + 5, "p", "}")
         THEN [ok |-> TRUE, next |-> i + 6,
               val |-> Skill(toks[i + 2].v, toks[i + 4].v, <<>>)]
         ELSE IF /\ IsTok(toks, i + 5, "s", "years") /\ i + 6 <= Len(toks)
                 /\ toks[i + 6].t = "n" /\ IsTok(toks, i + 7, "p", "}")
         THEN [ok |-> TRUE, next |-> i + 8,
               val |-> Skill(toks[i + 2].v, toks[i + 4].v, <<toks[i + 6].v>>)]
         ELSE [ok |-> FALSE, next |-> i, val |-> Skill("", 0, <<>>)]
    ELSE [ok |-> FALSE, next |-> i, val |-> Skill("", 0, <<>>)]

\* The skill objects from token i up to the closing bracket.
RECURSIVE ParseArray(_, _, _)
ParseArray(toks, i, acc) ==
    IF IsTok(toks, i, "p", "]") THEN [ok |-> TRUE, next |-> i + 1, val |-> acc]
    ELSE LET r == ParseSkill(toks, i) IN
         IF r.ok THEN ParseArray(toks, r.next, Append(acc, r.val))
         ELSE [ok |-> FALSE, next |-> i, val |-> acc]

\* The key/array pairs from token i up to the closing brace.
RECURSIVE ParseMap(_, _, _)
ParseMap(toks, i, acc) ==
    IF IsTok(toks, i, "p", "}") THEN [ok |-> TRUE, next |-> i + 1, val |-> acc]
    ELSE IF i + 1 <= Len(toks) /\ toks[i].t = "s" /\ IsTok(toks, i + 1, "p", "[")
    THEN LET r == ParseArray(toks, i + 2, <<>>) IN
         IF r.ok THEN ParseMap(toks, r.next, (toks[i].v :> r.val) @@ acc)
         ELSE [ok |-> FALSE, next |-> i, val |-> acc]
    ELSE [ok |-> FALSE, next |-> i, val |-> acc]

\* JSON.parse(text): the value, or ok = FALSE for the SyntaxError.
JSONparse(toks) ==
    IF toks = <<Tok("p", "null")>> THEN [ok |-> TRUE, val |-> JsonNull]
    ELSE IF toks = <<Tok("p", "{"), Tok("p", "}")>>
    THEN [ok |-> TRUE, val |-> JsonEmptyObject]
    ELSE IF /\ IsTok(toks, 1, "p", "{") /\ IsTok(toks, 2, "s", "skills")
            /\ IsTok(toks, 3, "p", "{")
    THEN LET r == ParseMap(toks, 4, <<>>) IN
         IF r.ok /\ IsTok(toks, r.next, "p", "}") /\ r.next = Len(toks)
         THEN [ok |-> TRUE, val |-> Dataset(r.val)]
         ELSE [ok |-> FALSE, val |-> JsonNull]
    ELSE [ok |-> FALSE, val |-> JsonNull]

\* saveToLocalStorage() without its try/catch: the error of setItem reaches
\* the caller.
saveToLocalStorageNoCatch(data, store, writeFails) ==
    IF writeFails THEN [threw |-> TRUE, storage |-> store]
    ELSE [threw |-> FALSE, storage |-> <<JSONstringify(data)>>]

\* saveToLocalStorage(): setItem may throw (quota); the catch swallows the
\* error.  Whether the call raised, and the stored entry afterwards.
saveToLocalStorage(data, store, writeFails) ==
    IF writeFails THEN [threw |-> FALSE, storage |-> store]
    ELSE [threw |-> FALSE, storage |-> <<JSONstringify(data)>>]

\* loadFromLocalStorage(): what it returns and this.skillsData afterwards.
loadFromLocalStorage(data, store, readFails) ==
    IF readFails \/ store = <<>> \/ store[1] = <<>>
    THEN [ret |-> "false", skillsData |-> data]
    ELSE LET r == JSONparse(store[1]) IN
         IF r.ok THEN [ret |-> "true", skillsData |-> r.val]
         ELSE [ret |-> "false", skillsData |-> data]

\* ---------------------------------------------------------------- timers

\* setTimeout callbacks of one script, in the order they were set, each
\* with the time `left` (ms) until it is due.  The i-th runs next when it
\* is due and was set before the others that are due.
CanFire(timers, i) ==
    /\ i \in 1..Len(timers)
    /\ timers[i].left = 0
    /\ \A j \in 1..(i - 1) : timers[j].left > 0

\* Time may pass by d ms when no callback is due before that.
CanElapse(timers, d) ==
    /\ timers # <<>>
    /\ \A i \in 1..Len(timers) : timers[i].left >= d

Elapse(timers, d) ==
    [i \in 1..Len(timers) |-> [timers[i] EXCEPT !.left = @ - d]]

RemoveAt(timers, i) ==
    [k \in 1..(Len(timers) - 1) |-> IF k < i THEN timers[k] ELSE timers[k + 1]]

\* ----------------------------------------------------------------- theme

\* What localStorage.getItem('portfolio-theme') may return on arrival.
ThemeStores == {<<>>, <<"light">>, <<"dark">>}

\* The order in which the page lists theme-toogle.js and main.js, which is
\* the order of their DOMContentLoaded handlers.
ScriptOrders == {"toggleFirst", "mainFirst"}

\* currentTheme === 'light' ? 'dark' : 'light'
FlipTheme(t) == IF t = "light" THEN "dark" ELSE "light"

\* matches ? 'dark' : 'light'
SchemeTheme(matches) == IF matches THEN "dark" ELSE "light"

\* localStorage.getItem('portfolio-theme') || fallback
StoredOr(store, fallback) ==
    IF store # <<>> /\ store[1] # "" THEN store[1] ELSE fallback

\* initThemeToggle() up to its listeners.
initThemeToggle(th) ==
    LET current == StoredOr(th.store, SchemeTheme(th.prefersDark))
    IN [th EXCEPT !.current = current, !.attr = current]

\* main.js initTheme().
initTheme(th) == [th EXCEPT !.attr = StoredOr(th.store, "light")]

\* ---------------------------------------------------------- contact form

\* The submit button's label in the page, and while a submission runs.
OriginalLabel == "Send Message"
SendingLabel == "Sending..."

\* Delays of the form's timers (ms), and the step in which the model lets
\* the form's time pass.
SubmissionDelay == 1500
HideDelay == 5000
FormTick == SubmissionDelay \div 3

\* showFormError(): the global error shows, and hides 5 s later.
showFormError(f) ==
    [f EXCEPT !.error = "block",
              !.timers = Append(@, [kind |-> "hideError", left |-> HideDelay,
                                    text |-> ""])]

\* ------------------------------------------------------------- projects

\* data-type of the cards createProjectCard makes from data/projects.json.
ProjectTypes == <<"frontend", "backend">>

\* data-filter of the filter buttons ("design" is none the switch knows).
FilterButtons == {"all", "frontend", "backend", "design"}

\* Delays of the grid's timers (ms), and the step in which the model lets
\* the grid's time pass.
ShowDelay == 10
HideCardDelay == 300
ReinitDelay == 100
GridTick == ShowDelay

\* createProjectCard(): no inline display or opacity.
createProjectCard(type) == [type |-> type, display |-> "", opacity |-> ""]

\* The switch of the click handler.
shouldShow(filter, projectType) ==
    IF filter = "all" THEN TRUE
    ELSE IF filter \in {"frontend", "backend", "fullstack"}
    THEN projectType = filter
    ELSE TRUE

\* One run of the click handler over the cards: the styles it sets at once.
ApplyFilter(cards, filter) ==
    [i \in 1..Len(cards) |->
        IF shouldShow(filter, cards[i].type)
        THEN [cards[i] EXCEPT !.display = "block"]
        ELSE [cards[i] EXCEPT !.opacity = "0"]]

\* ... and the timers it sets, one per card, in card order.
FilterTimers(cards, filter) ==
    [i \in 1..Len(cards) |->
        IF shouldShow(filter, cards[i].type)
        THEN [kind |-> "show", left |-> ShowDelay, card |-> i]
        ELSE [kind |-> "hide", left |-> HideCardDelay, card |-> i]]

\* A sequence k times over.
RECURSIVE Repeat(_, _)
Repeat(seq, k) == IF k = 0 THEN <<>> ELSE seq \o Repeat(seq, k - 1)

\* ------------------------------------------------------------ navigation

\* The text setAttribute stores for a boolean.
BoolText(b) == IF b THEN "true" ELSE "false"

\* The navigation of a page with its menu closed.  `page` tells whether
\* it has the hamburger and the menu (hasNav) and the overlay (hasOverlay),
\* what getAttribute('aria-expanded') gives on the static hamburger
\* ("false", or "null" without the attribute), and whether the window is
\* wider than 768 px.
ClosedNav(page) ==
    [hasNav |-> page.hasNav, hasOverlay |-> page.hasOverlay, ready |-> FALSE,
     expanded |-> page.expanded, hamburgerActive |-> FALSE,
     menuActive |-> FALSE, overlayActive |-> FALSE, menuOpen |-> FALSE,
     wide |-> page.wide, resizeTimer |-> FALSE, scrolls |-> 0]

FullNav == [hasNav |-> TRUE, hasOverlay |-> TRUE, expanded |-> "false",
            wide |-> FALSE]

\* Pages with and without the hamburger and menu, with and without the
\* overlay and the static attribute, on a narrow and on a wide window.
NavPages == [hasNav : BOOLEAN, hasOverlay : BOOLEAN,
             expanded : {"false", "null"}, wide : BOOLEAN]

\* initNavigation(): nothing without the hamburger or the menu, else the
\* listeners.
initNavigation(n) == IF ~n.hasNav THEN n ELSE [n EXCEPT !.ready = TRUE]

\* toggleMenu(): aria-expanded from what it reads, each class toggled.
toggleMenu(n) ==
    LET isExpanded == n.expanded = "true" IN
    [n EXCEPT !.expanded = BoolText(~isExpanded),
              !.hamburgerActive = ~@,
              !.menuActive = ~@,
              !.overlayActive = IF n.hasOverlay THEN ~@ ELSE @,
              !.menuOpen = ~@]

\* A closeMenu() that leaves the body's class.
closeMenuKeepingBody(n) ==
    [n EXCEPT !.expanded = "false",
              !.hamburgerActive = FALSE,
              !.menuActive = FALSE,
              !.overlayActive = FALSE]

closeMenu(n) ==
    [n EXCEPT !.expanded = "false",
              !.hamburgerActive = FALSE,
              !.menuActive = FALSE,
              !.overlayActive = FALSE,
              !.menuOpen = FALSE]

\* The click listener of the document, for a target outside the menu and
\* the hamburger or not.
documentClick(n, outside) ==
    IF n.menuActive /\ outside THEN closeMenu(n) ELSE n

\* Keys pressed anywhere in the document.
NavKeys == {"Escape", "Enter"}

\* ------------------------------------------------------------------ inputs

UpdateCategories == {"frontend", "nosuch", "toString"}
UpdateNames == {"HTML5", "nosuch"}
UpdateLevels == {-10, 50, 150}

\* ------------------------------------------------------------ state machine

\* `last` when the step was no call of init(), updateSkillLevel,
\* saveToLocalStorage or loadFromLocalStorage coming to its end.  `stats`
\* tells whether the call ran calculateAndDisplayStats() to its end.  For a
\* click or a key on a tab, `tab` is the tab that took the event and `key`
\* the key.
NoCall == [op |-> "none", outcome |-> "none", ret |-> "none",
           category |-> "", name |-> "", level |-> 0, stats |-> "none",
           tab |-> 0, key |-> ""]

\* The state once the scripts have run, before DOMContentLoaded, on a page
\* that is one of `pages`, with one of `stores` left under 'portfolio-skills'
\* and one of `themeStores` under 'portfolio-theme' by an earlier visit, and
\* the system preferring dark as one of `schemes` tells.
InitWith(pages, stores, themeStores, schemes, navPages, panelSets) ==
    /\ skillsData = JsonNull
    /\ initialized = FALSE
    /\ domLoaded = FALSE
    /\ calls = [fetch |-> 0, json |-> 0, loaded |-> <<>>]
    /\ storage \in stores
    /\ present \in pages
    /\ containers = [cid \in ContainerIds |-> <<>>]
    /\ warnings = 0
    /\ observers = <<>>
    /\ widthTimers = <<>>
    /\ tabTimers = 0
    /\ statText = [s \in StatIds |-> StaticText]
    /\ raf = <<>>
    /\ tabListeners = 0
    /\ tabActive = {1}
    /\ tabSelected = {1}
    /\ panels \in panelSets
    /\ panelActive = {1} \cap panels
    /\ panelHidden = panels \ {1}
    /\ \E st \in themeStores, dark \in schemes :
          theme = [attr |-> "", current |-> "", store |-> st, prefersDark |-> dark]
    /\ projects = [pc |-> "none", cards |-> <<>>, listeners |-> 0,
                   active |-> "none", timers |-> <<>>]
    /\ form = [text |-> OriginalLabel, disabled |-> FALSE, success |-> "none",
               error |-> "absent", timers |-> <<>>]
    /\ \E np \in navPages : nav = ClosedNav(np)
    /\ budget = [retries |-> MaxRetries, updates |-> MaxUpdates,
                 restores |-> MaxRestores, saves |-> MaxSaves,
                 tabClicks |-> MaxTabClicks, intersects |-> MaxIntersects,
                 submits |-> MaxSubmits, filterClicks |-> MaxFilterClicks,
                 projectRetries |-> MaxProjectRetries,
                 linkClicks |-> MaxLinkClicks, tabKeys |-> MaxTabKeys]
    /\ last = NoCall

\* The same on a page with the whole navigation and a panel for every tab.
InitOn(pages, stores, themeStores, schemes) ==
    InitWith(pages, stores, themeStores, schemes, {FullNav}, {Tabs})

\* The page with every attachment point.
Init == InitOn({AttachPoints}, {<<>>}, {<<>>}, {FALSE})

\* Pages that lack up to MaxAbsent attachment points.
SparsePages == {AttachPoints \ A : A \in {B \in SUBSET AttachPoints :
                                            Cardinality(B) <= MaxAbsent}}

InitDom == InitOn(SparsePages, {<<>>}, {<<>>}, {FALSE})

\* No microtask is pending: the host may run the next task.
Idle == domLoaded /\ calls.loaded = <<>>

\* Calls of init() that have not come to their end.
InFlight == calls.fetch + calls.json + Len(calls.loaded)

\* The DOMContentLoaded handlers of the four scripts.  skills-manager.js
\* and main.js (their order does not matter to the skills state): main.js's
\* initSkillAnimations(), and skillsManager.init() twice.  main.js besides:
\* initProjectFilter(), loadProjects() and initTheme(), the last before or
\* after theme-toogle.js's initThemeToggle() as `order` tells.  The contact
\* form's handler only adds listeners, and so does initNavigation().
DOMContentLoaded(order) ==
    /\ ~domLoaded
    /\ domLoaded' = TRUE
    /\ observers' = mainInitSkillAnimations(containers, observers)
    /\ calls' = [calls EXCEPT !.fetch = @ + 2]
    /\ theme' = IF order = "toggleFirst" THEN initTheme(initThemeToggle(theme))
                ELSE initThemeToggle(initTheme(theme))
    /\ projects' = [projects EXCEPT !.listeners = @ + 1, !.pc = "loading"]
    /\ nav' = initNavigation(nav)
    /\ UNCHANGED <<form, panels>>
    /\ last' = NoCall
    /\ UNCHANGED <<skillsData, initialized, storage, present, containers,
                   warnings, widthTimers, tabTimers, statText, raf,
                   tabListeners, tabActive, tabSelected, panelActive,
                   panelHidden, budget>>

\* The click on the banner's Retry button: skillsManager.init().
Retry ==
    /\ Idle
    /\ warnings > 0
    /\ budget.retries > 0
    /\ budget' = [budget EXCEPT !.retries = @ - 1]
    /\ calls' = [calls EXCEPT !.fetch = @ + 1]
    /\ last' = NoCall
    /\ UNCHANGED <<skillsData, initialized, domLoaded, storage, present,
                   containers, warnings, observers, widthTimers, tabTimers,
                   statText, raf, tabListeners, tabActive, tabSelected,
                   panelActive, panelHidden>>
    /\ UNCHANGED <<theme, projects, form, nav, panels>>

\* loadSkillsData() of a call awaiting `pc` runs to its end with the fetch
\* come to `outcome`.
LoadSettles(pc, outcome, body) ==
    LET r == loadSkillsData(outcome, body, skillsData) IN
    /\ skillsData' = r.skillsData
    /\ calls' = [calls EXCEPT ![pc] = @ - 1,
                   !.loaded = <<[outcome |-> outcome, rejected |-> r.rejected]>>]
    /\ last' = NoCall
    /\ UNCHANGED <<initialized, domLoaded, storage, present, containers,
                   warnings, observers, widthTimers, tabTimers, statText, raf,
                   tabListeners, tabActive, tabSelected, panelActive,
                   panelHidden, budget>>
    /\ UNCHANGED <<theme, projects, form, nav, panels>>

\* The fetch promise of a call rejects ("reject") or resolves with a non-ok
\* response ("notOk"): loadSkillsData() ends in its catch.
FetchFails(outcome) ==
    /\ Idle
    /\ calls.fetch > 0
    /\ LoadSettles("fetch", outcome, JsonNull)

\* The fetch promise of a call resolves with an ok response:
\* loadSkillsData() goes on to await response.json().
FetchOk ==
    /\ Idle
    /\ calls.fetch > 0
    /\ calls' = [calls EXCEPT !.fetch = @ - 1, !.json = @ + 1]
    /\ last' = NoCall
    /\ UNCHANGED <<skillsData, initialized, domLoaded, storage, present,
                   containers, warnings, observers, widthTimers, tabTimers,
                   statText, raf, tabListeners, tabActive, tabSelected,
                   panelActive, panelHidden, budget>>
    /\ UNCHANGED <<theme, projects, form, nav, panels>>

\* response.json() of a call rejects with a SyntaxError.
JsonFails ==
    /\ Idle
    /\ calls.json > 0
    /\ LoadSettles("json", "parseError", JsonNull)

\* response.json() of a call resolves with the parsed body.
JsonParsed(body) ==
    /\ Idle
    /\ calls.json > 0
    /\ LoadSettles("json", "body", body)

\* showFallbackSkills(): [threw, warnings, skillsData, containers, observers,
\* widthTimers] afterwards.  The prepend throws when '.skills' holds no
\* '.container'.
showFallbackSkills(pres, warn, data, conts, obs, timers) ==
    IF ".skills" \in pres /\ ".container" \notin pres
    THEN [threw |-> TRUE, warnings |-> warn, skillsData |-> data,
          containers |-> conts, observers |-> obs, widthTimers |-> timers]
    ELSE LET fb == getFallbackSkillsData
             r == renderSkills(fb, conts, pres)
             a == initSkillAnimations(r.containers,
                                      DropTargets(obs, Rewritten(fb, pres)))
         IN [threw |-> FALSE,
             warnings |-> IF ".skills" \in pres THEN warn + 1 ELSE warn,
             skillsData |-> fb,
             containers |-> a.containers,
             observers |-> a.observers,
             widthTimers |-> DropTimers(timers, Rewritten(fb, pres))]

\* initTabs(): one more click listener on every tab.
initTabs(pres, listeners) == IF "tabs" \in pres THEN listeners + 1 ELSE listeners

\* init() goes on after its await, to its end.
InitContinues ==
    /\ calls.loaded # <<>>
    /\ calls' = [calls EXCEPT !.loaded = <<>>]
    /\ LET r == renderSkills(skillsData, containers, present) IN
       IF calls.loaded[1].rejected \/ r.threw
       THEN LET f == showFallbackSkills(present, warnings, skillsData,
                                        containers, observers, widthTimers)
            IN /\ skillsData' = f.skillsData
               /\ warnings' = f.warnings
               /\ containers' = f.containers
               /\ observers' = f.observers
               /\ widthTimers' = f.widthTimers
               /\ last' = [NoCall EXCEPT !.op = "init",
                             !.outcome = calls.loaded[1].outcome,
                             !.ret = IF f.threw THEN "rejected" ELSE "resolved"]
               /\ UNCHANGED <<initialized, statText, raf, tabListeners>>
       ELSE LET cids == Rewritten(skillsData, present)
                a == initSkillAnimations(r.containers, DropTargets(observers, cids))
                st == calculateAndDisplayStats(skillsData, statText, raf, present)
            IN /\ containers' = a.containers
               /\ observers' = a.observers
               /\ widthTimers' = DropTimers(widthTimers, cids)
               /\ tabListeners' = initTabs(present, tabListeners)
               /\ statText' = st.statText
               /\ raf' = st.raf
               /\ initialized' = TRUE
               /\ last' = [NoCall EXCEPT !.op = "init",
                             !.outcome = calls.loaded[1].outcome,
                             !.ret = "resolved",
                             !.stats = IF st.threw THEN "threw" ELSE "done"]
               /\ UNCHANGED <<skillsData, warnings>>
    /\ UNCHANGED <<domLoaded, storage, present, tabTimers, tabActive,
                   tabSelected, panelActive, panelHidden, budget>>
    /\ UNCHANGED <<theme, projects, form, nav, panels>>

\* skillsManager.updateSkillLevel(category, skillName, newLevel), called by
\* the page's admin code between two tasks.
UpdateSkillLevel(category, skillName, newLevel, writeFails) ==
    /\ Idle
    /\ budget.updates > 0
    /\ budget' = [budget EXCEPT !.updates = @ - 1]
    /\ LET u == updateSkillLevel(skillsData, category, skillName, newLevel) IN
       IF u.ret # "go on"
       THEN /\ last' = [NoCall EXCEPT !.op = "updateSkillLevel", !.outcome = "none",
                          !.ret = u.ret, !.category = category,
                          !.name = skillName, !.level = newLevel]
            /\ UNCHANGED <<skillsData, storage, containers, observers,
                           widthTimers, statText, raf>>
       ELSE LET s == saveToLocalStorage(u.data, storage, writeFails)
                r == renderSkills(u.data, containers, present)
                st == calculateAndDisplayStats(u.data, statText, raf, present)
                cids == Rewritten(u.data, present)
                written == IF writeFails THEN "writeFailed" ELSE "written"
            IN /\ skillsData' = u.data
               /\ storage' = s.storage
               /\ IF s.threw
                  THEN /\ last' = [NoCall EXCEPT !.op = "updateSkillLevel",
                                     !.outcome = written, !.ret = "threw",
                                     !.category = category, !.name = skillName,
                                     !.level = newLevel]
                       /\ UNCHANGED <<containers, observers, widthTimers,
                                      statText, raf>>
                  ELSE /\ containers' = r.containers
                       /\ observers' = DropTargets(observers, cids)
                       /\ widthTimers' = DropTimers(widthTimers, cids)
                       /\ statText' = st.statText
                       /\ raf' = st.raf
                       /\ last' = [NoCall EXCEPT !.op = "updateSkillLevel",
                                     !.outcome = written, !.ret = "true",
                                     !.category = category, !.name = skillName,
                                     !.level = newLevel,
                                     !.stats = IF st.threw THEN "threw"
                                               ELSE "done"]
    /\ UNCHANGED <<initialized, domLoaded, calls, present, warnings, tabTimers,
                   tabListeners, tabActive, tabSelected, panelActive,
                   panelHidden>>
    /\ UNCHANGED <<theme, projects, form, nav, panels>>

\* skillsManager.saveToLocalStorage(), called by the page's admin code
\* between two tasks (also while the first load is still awaited).
SaveToLocalStorage(writeFails) ==
    /\ Idle
    /\ budget.saves > 0
    /\ budget' = [budget EXCEPT !.saves = @ - 1]
    /\ LET s == saveToLocalStorage(skillsData, storage, writeFails) IN
       /\ storage' = s.storage
       /\ last' = [NoCall EXCEPT !.op = "saveToLocalStorage",
                     !.outcome = IF writeFails THEN "writeFailed" ELSE "written",
                     !.ret = IF s.threw THEN "threw" ELSE "returned"]
    /\ UNCHANGED <<skillsData, initialized, domLoaded, calls, present,
                   containers, warnings, observers, widthTimers, tabTimers,
                   statText, raf, tabListeners, tabActive, tabSelected,
                   panelActive, panelHidden>>
    /\ UNCHANGED <<theme, projects, form, nav, panels>>

\* skillsManager.loadFromLocalStorage(); getItem may throw (an unreadable
\* store).
LoadFromLocalStorage(readFails) ==
    /\ Idle
    /\ budget.restores > 0
    /\ budget' = [budget EXCEPT !.restores = @ - 1]
    /\ LET r == loadFromLocalStorage(skillsData, storage, readFails) IN
       /\ skillsData' = r.skillsData
       /\ last' = [NoCall EXCEPT !.op = "loadFromLocalStorage",
                     !.outcome = IF readFails THEN "unreadable" ELSE "read",
                     !.ret = r.ret]
    /\ UNCHANGED <<initialized, domLoaded, calls, storage, present, containers,
                   warnings, observers, widthTimers, tabTimers, statText, raf,
                   tabListeners, tabActive, tabSelected, panelActive,
                   panelHidden>>
    /\ UNCHANGED <<theme, projects, form, nav, panels>>

\* The remainder as JavaScript's % takes it: the sign of the dividend.
JsRem(a, b) == IF a >= 0 THEN a % b ELSE 0 - ((0 - a) % b)

\* Keys pressed on a tab.
TabKeys == {"Enter", " ", "ArrowRight", "ArrowLeft", "Home"}

\* The index ArrowRight computes from the index of the tab.
nextIndex(index, length) == JsRem(index + 1, length)

\* An ArrowLeft that takes the remainder of index - 1.
prevIndexNoWrap(index, length) == JsRem(index - 1, length)

\* The index ArrowLeft computes.
prevIndex(index, length) == JsRem(index - 1 + length, length)

\* The tab the keydown listener of tab t clicks for `key`: tabs[...] of an
\* index from 0, or 0 when it clicks none.
KeyTarget(t, key) ==
    IF key \in {"Enter", " "} THEN t
    ELSE IF key = "ArrowRight" THEN nextIndex(t - 1, NumTabs) + 1
    ELSE IF key = "ArrowLeft" THEN prevIndex(t - 1, NumTabs) + 1
    ELSE 0

\* A click on tab t: every click listener initTabs has added runs, and each
\* sets a 100 ms timer.
TabClick(t) ==
    /\ Idle
    /\ "tabs" \in present
    /\ tabListeners > 0
    /\ budget.tabClicks > 0
    /\ budget' = [budget EXCEPT !.tabClicks = @ - 1]
    /\ tabActive' = {t}
    /\ tabSelected' = {t}
    /\ panelActive' = {t} \cap panels
    /\ panelHidden' = panels \ {t}
    /\ tabTimers' = tabTimers + tabListeners
    /\ last' = [NoCall EXCEPT !.op = "tabClick", !.tab = t]
    /\ UNCHANGED <<skillsData, initialized, domLoaded, calls, storage, present,
                   containers, warnings, observers, widthTimers, statText, raf,
                   tabListeners>>
    /\ UNCHANGED <<theme, projects, form, nav, panels>>

\* `key` goes down on tab t: every keydown listener initTabs has added
\* runs; for Enter and Space it clicks the tab, for an arrow the tab it
\* computes (an index outside tabs gives undefined, and the listener throws
\* at focus()), for another key nothing.  Each click runs every click
\* listener.
TabKeydown(t, key) ==
    /\ Idle
    /\ "tabs" \in present
    /\ tabListeners > 0
    /\ budget.tabKeys > 0
    /\ budget' = [budget EXCEPT !.tabKeys = @ - 1]
    /\ LET target == KeyTarget(t, key) IN
       IF target \in Tabs
       THEN /\ tabActive' = {target}
            /\ tabSelected' = {target}
            /\ panelActive' = {target} \cap panels
            /\ panelHidden' = panels \ {target}
            /\ tabTimers' = tabTimers + tabListeners * tabListeners
       ELSE UNCHANGED <<tabActive, tabSelected, panelActive, panelHidden,
                        tabTimers>>
    /\ last' = [NoCall EXCEPT !.op = "tabKeydown", !.tab = t, !.key = key]
    /\ UNCHANGED <<skillsData, initialized, domLoaded, calls, storage, present,
                   containers, warnings, observers, widthTimers, statText, raf,
                   tabListeners>>
    /\ UNCHANGED <<theme, projects, form, nav, panels>>

\* A tab click's timer fires: this.initSkillAnimations().
TabTimerFires ==
    /\ Idle
    /\ tabTimers > 0
    /\ tabTimers' = tabTimers - 1
    /\ LET a == initSkillAnimations(containers, observers) IN
       /\ containers' = a.containers
       /\ observers' = a.observers
    /\ last' = NoCall
    /\ UNCHANGED <<skillsData, initialized, domLoaded, calls, storage, present,
                   warnings, widthTimers, statText, raf, tabListeners,
                   tabActive, tabSelected, panelActive, panelHidden, budget>>
    /\ UNCHANGED <<theme, projects, form, nav, panels>>

\* The entries of one visibility callback, in document order.
RECURSIVE EntriesOf(_, _, _)
EntriesOf(targets, cid, i) ==
    IF i = 0 THEN <<>>
    ELSE EntriesOf(targets, cid, i - 1)
         \o (IF <<cid, i>> \in targets THEN <<i>> ELSE <<>>)

\* The callback of observer o for the elements of container cid it tracks,
\* all found intersecting: each gets a 200 ms timer for its width, its entry
\* styling (SkillsManager's observer) and is unobserved.
Intersect(o, cid) ==
    /\ Idle
    /\ budget.intersects > 0
    /\ o \in 1..Len(observers)
    /\ \E t \in observers[o].targets : t[1] = cid
    /\ budget' = [budget EXCEPT !.intersects = @ - 1]
    /\ LET hit == {t \in observers[o].targets : t[1] = cid}
           idx == EntriesOf(hit, cid, Len(containers[cid]))
       IN /\ widthTimers' = widthTimers \o
                [k \in 1..Len(idx) |->
                    [el |-> <<cid, idx[k]>>, level |-> containers[cid][idx[k]].level]]
          /\ containers' = [containers EXCEPT ![cid] =
                [i \in 1..Len(@) |->
                    IF <<cid, i>> \in hit
                    THEN [@[i] EXCEPT
                            !.opacity = IF observers[o].src = "manager"
                                        THEN "1" ELSE @,
                            !.fired = Min(2, @ + 1)]
                    ELSE @[i]]]
          /\ observers' = SelectSeq(
                [observers EXCEPT ![o].targets = @ \ hit],
                LAMBDA x : x.targets # {})
    /\ last' = NoCall
    /\ UNCHANGED <<skillsData, initialized, domLoaded, calls, storage, present,
                   warnings, tabTimers, statText, raf, tabListeners, tabActive,
                   tabSelected, panelActive, panelHidden>>
    /\ UNCHANGED <<theme, projects, form, nav, panels>>

\* The oldest 200 ms timer fires: progressBar.style.width = `${level}%`.
WidthTimerFires ==
    /\ Idle
    /\ widthTimers # <<>>
    /\ LET t == Head(widthTimers) IN
       containers' = [containers EXCEPT ![t.el[1]][t.el[2]].width = t.level]
    /\ widthTimers' = Tail(widthTimers)
    /\ last' = NoCall
    /\ UNCHANGED <<skillsData, initialized, domLoaded, calls, storage, present,
                   warnings, observers, tabTimers, statText, raf, tabListeners,
                   tabActive, tabSelected, panelActive, panelHidden, budget>>
    /\ UNCHANGED <<theme, projects, form, nav, panels>>

\* `step` of animateValue on a frame that comes dt units (of duration /
\* AnimSteps) after the one before: timestamp - startTimestamp (0 on the
\* callback's first frame), the text it writes, and whether it asks for
\* another frame.
StepElapsed(c, dt) == IF c.elapsed < 0 THEN 0 ELSE Min(AnimSteps, c.elapsed + dt)
StepValue(c, dt) == (StepElapsed(c, dt) * c.end) \div AnimSteps
StepGoesOn(c, dt) == StepElapsed(c, dt) < AnimSteps

\* One animation frame, dt units after the one before: every registered
\* callback runs, in order.
Frame(dt) ==
    /\ Idle
    /\ raf # <<>>
    /\ statText' =
         [s \in StatIds |->
            IF \E k \in 1..Len(raf) : raf[k].el = s
            THEN LET k == CHOOSE k \in 1..Len(raf) :
                            /\ raf[k].el = s
                            /\ \A j \in (k + 1)..Len(raf) : raf[j].el # s
                 IN [n |-> StepValue(raf[k], dt), suffix |-> raf[k].suffix]
            ELSE statText[s]]
    /\ raf' = LET goesOn == SelectSeq(raf, LAMBDA c : StepGoesOn(c, dt)) IN
              [k \in 1..Len(goesOn) |->
                  [goesOn[k] EXCEPT !.elapsed = StepElapsed(goesOn[k], dt)]]
    /\ last' = NoCall
    /\ UNCHANGED <<skillsData, initialized, domLoaded, calls, storage, present,
                   containers, warnings, observers, widthTimers, tabTimers,
                   tabListeners, tabActive, tabSelected, panelActive,
                   panelHidden, budget>>
    /\ UNCHANGED <<theme, projects, form, nav, panels>>

\* What the skills scripts own.
skillsVars == <<skillsData, initialized, domLoaded, calls, storage, present,
                containers, warnings, observers, widthTimers, tabTimers,
                statText, raf, tabListeners, tabActive, tabSelected,
                panelActive, panelHidden>>

\* A click on the theme toggle; setItem may throw, which ends the handler
\* after the attribute is set.
ThemeToggleClick(writeFails) ==
    /\ Idle
    /\ theme' = [theme EXCEPT !.current = FlipTheme(@),
                              !.attr = FlipTheme(theme.current),
                              !.store = IF writeFails THEN @
                                        ELSE <<FlipTheme(theme.current)>>]
    /\ last' = [NoCall EXCEPT !.op = "themeToggleClick",
                  !.outcome = IF writeFails THEN "writeFailed" ELSE "written"]
    /\ UNCHANGED <<skillsVars, nav, panels, projects, form, budget>>

\* The system's colour scheme changes: the 'change' listener of
\* prefers-color-scheme: dark.
ColorSchemeChange ==
    /\ Idle
    /\ theme' = [theme EXCEPT
                   !.prefersDark = ~@,
                   !.attr = IF StoredOr(theme.store, "") = ""
                            THEN SchemeTheme(~theme.prefersDark) ELSE @]
    /\ last' = NoCall
    /\ UNCHANGED <<skillsVars, nav, panels, projects, form, budget>>

\* A submit event on the contact form, its fields valid or not: the
\* handler up to its await.
Submit(valid) ==
    /\ Idle
    /\ budget.submits > 0
    /\ budget' = [budget EXCEPT !.submits = @ - 1]
    /\ form' = IF ~valid THEN showFormError(form)
               ELSE [form EXCEPT
                       !.text = SendingLabel,
                       !.disabled = TRUE,
                       !.timers = Append(@, [kind |-> "submission",
                                             left |-> SubmissionDelay,
                                             text |-> form.text])]
    /\ last' = NoCall
    /\ UNCHANGED <<skillsVars, nav, panels, theme, projects>>

\* The timer of simulateFormSubmission fires and settles the promise; the
\* handler goes on after its await, through try or catch, and finally.
SubmissionSettles(i, isSuccess) ==
    /\ Idle
    /\ CanFire(form.timers, i)
    /\ form.timers[i].kind = "submission"
    /\ LET rest == [form EXCEPT !.timers = RemoveAt(@, i)]
           done == IF isSuccess
                   THEN [rest EXCEPT
                           !.success = "block",
                           !.timers = Append(@, [kind |-> "hideSuccess",
                                                 left |-> HideDelay,
                                                 text |-> ""])]
                   ELSE showFormError(rest)
       IN form' = [done EXCEPT !.text = form.timers[i].text,
                               !.disabled = FALSE]
    /\ last' = NoCall
    /\ UNCHANGED <<skillsVars, nav, panels, theme, projects, budget>>

\* A 5 s timer hides the success message or the global error.
HideTimerFires(i) ==
    /\ Idle
    /\ CanFire(form.timers, i)
    /\ form.timers[i].kind \in {"hideSuccess", "hideError"}
    /\ form' = [form EXCEPT
                  !.timers = RemoveAt(@, i),
                  !.success = IF form.timers[i].kind = "hideSuccess"
                              THEN "none" ELSE @,
                  !.error = IF form.timers[i].kind = "hideError"
                            THEN "none" ELSE @]
    /\ last' = NoCall
    /\ UNCHANGED <<skillsVars, nav, panels, theme, projects, budget>>

\* d ms pass with no timer of the form due before.
FormTimePasses(d) ==
    /\ Idle
    /\ CanElapse(form.timers, d)
    /\ form' = [form EXCEPT !.timers = Elapse(@, d)]
    /\ last' = NoCall
    /\ UNCHANGED <<skillsVars, nav, panels, theme, projects, budget>>

\* loadProjects() goes on after its awaits: the fetch and the parse of
\* its body came to ok (the cards replace the grid's contents and
\* initProjectFilter is set to run 100 ms later) or not (the error message
\* replaces them).
ProjectsSettle(isOk) ==
    /\ Idle
    /\ projects.pc = "loading"
    /\ projects' =
         IF isOk
         THEN [projects EXCEPT
                 !.pc = "loaded",
                 !.cards = [i \in 1..Len(ProjectTypes) |->
                               createProjectCard(ProjectTypes[i])],
                 !.timers = Append(SelectSeq(@, LAMBDA t : t.kind = "reinit"),
                                   [kind |-> "reinit", left |-> ReinitDelay,
                                    card |-> 0])]
         ELSE [projects EXCEPT
                 !.pc = "failed",
                 !.cards = <<>>,
                 !.timers = SelectSeq(@, LAMBDA t : t.kind = "reinit")]
    /\ last' = NoCall
    /\ UNCHANGED <<skillsVars, nav, panels, theme, form, budget>>

\* A click on the Retry button of the grid's error message: loadProjects().
ProjectsRetry ==
    /\ Idle
    /\ projects.pc = "failed"
    /\ budget.projectRetries > 0
    /\ budget' = [budget EXCEPT !.projectRetries = @ - 1]
    /\ projects' = [projects EXCEPT !.pc = "loading"]
    /\ last' = NoCall
    /\ UNCHANGED <<skillsVars, nav, panels, theme, form>>

\* A click on the filter button `filter`: every click listener
\* initProjectFilter has put on it runs.
FilterClick(filter) ==
    /\ Idle
    /\ projects.listeners > 0
    /\ budget.filterClicks > 0
    /\ budget' = [budget EXCEPT !.filterClicks = @ - 1]
    /\ projects' = [projects EXCEPT
                      !.active = filter,
                      !.cards = ApplyFilter(@, filter),
                      !.timers = @ \o Repeat(FilterTimers(projects.cards, filter),
                                             projects.listeners)]
    /\ last' = NoCall
    /\ UNCHANGED <<skillsVars, nav, panels, theme, form>>

\* A timer of the grid fires: a shown card turns opaque, a hidden card
\* leaves the layout, or initProjectFilter() runs again.
ProjectTimerFires(i) ==
    /\ Idle
    /\ CanFire(projects.timers, i)
    /\ LET t == projects.timers[i] IN
       projects' = [projects EXCEPT
                      !.timers = RemoveAt(@, i),
                      !.listeners = IF t.kind = "reinit" THEN @ + 1 ELSE @,
                      !.cards = IF t.kind = "show"
                                THEN [@ EXCEPT ![t.card].opacity = "1"]
                                ELSE IF t.kind = "hide"
                                THEN [@ EXCEPT ![t.card].display = "none"]
                                ELSE @]
    /\ last' = NoCall
    /\ UNCHANGED <<skillsVars, nav, panels, theme, form, budget>>

\* d ms pass with no timer of the grid due before.
GridTimePasses(d) ==
    /\ Idle
    /\ CanElapse(projects.timers, d)
    /\ projects' = [projects EXCEPT !.timers = Elapse(@, d)]
    /\ last' = NoCall
    /\ UNCHANGED <<skillsVars, nav, panels, theme, form, budget>>

\* The SkillsManager operations and the events that settle or display
\* them.  Visibility callbacks, tab clicks and their timers are left to
\* SpecAnim: they write containers, observers and timers only, which no
\* action here reads except to render over them.
\* A click on the hamburger: toggleMenu(); stopPropagation() keeps the
\* event from the document's listener.
HamburgerClick ==
    /\ Idle
    /\ nav.ready
    /\ nav' = toggleMenu(nav)
    /\ last' = NoCall
    /\ UNCHANGED <<skillsVars, panels, theme, projects, form, budget>>

\* A click on the overlay: closeMenu(), then the document's listener.
OverlayClick(outside) ==
    /\ Idle
    /\ nav.ready
    /\ nav.hasOverlay
    /\ nav' = documentClick(closeMenu(nav), outside)
    /\ last' = NoCall
    /\ UNCHANGED <<skillsVars, panels, theme, projects, form, budget>>

\* A click on a link of the menu, with an anchor or not: closeMenu(), a
\* 300 ms timer for the scroll, then the document's listener (the link is
\* in the menu).
NavLinkClick(hasHash) ==
    /\ Idle
    /\ nav.ready
    /\ budget.linkClicks > 0
    /\ budget' = [budget EXCEPT !.linkClicks = @ - 1]
    /\ nav' = [documentClick(closeMenu(nav), FALSE) EXCEPT
                 !.scrolls = IF hasHash THEN @ + 1 ELSE @]
    /\ last' = NoCall
    /\ UNCHANGED <<skillsVars, panels, theme, projects, form>>

\* The timer of a link click fires: the window scrolls.
ScrollTimerFires ==
    /\ Idle
    /\ nav.scrolls > 0
    /\ nav' = [nav EXCEPT !.scrolls = @ - 1]
    /\ last' = NoCall
    /\ UNCHANGED <<skillsVars, panels, theme, projects, form, budget>>

\* A key goes down: the keydown listener of the document.
NavKeydown(key) ==
    /\ Idle
    /\ nav.ready
    /\ nav' = IF key = "Escape" /\ nav.menuActive THEN closeMenu(nav) ELSE nav
    /\ last' = NoCall
    /\ UNCHANGED <<skillsVars, panels, theme, projects, form, budget>>

\* A click elsewhere in the page, outside the menu and the hamburger or in
\* the menu: the click listener of the document.
DocumentClick(outside) ==
    /\ Idle
    /\ nav.ready
    /\ nav' = documentClick(nav, outside)
    /\ last' = NoCall
    /\ UNCHANGED <<skillsVars, panels, theme, projects, form, budget>>

\* A resize event that leaves the window wider than 768 px or not:
\* clearTimeout and a new 250 ms timer.
Resize(wide) ==
    /\ Idle
    /\ nav.ready
    /\ nav' = [nav EXCEPT !.wide = wide, !.resizeTimer = TRUE]
    /\ last' = NoCall
    /\ UNCHANGED <<skillsVars, panels, theme, projects, form, budget>>

\* The resize timer fires, 250 ms after the last resize event.
ResizeTimerFires ==
    /\ Idle
    /\ nav.resizeTimer
    /\ nav' = LET n == [nav EXCEPT !.resizeTimer = FALSE] IN
              IF n.wide /\ n.menuActive THEN closeMenu(n) ELSE n
    /\ last' = NoCall
    /\ UNCHANGED <<skillsVars, panels, theme, projects, form, budget>>

Next ==
    \/ \E order \in ScriptOrders : DOMContentLoaded(order)
    \/ Retry
    \/ \E outcome \in {"reject", "notOk"} : FetchFails(outcome)
    \/ FetchOk
    \/ JsonFails
    \/ \E body \in JsonBodies : JsonParsed(body)
    \/ InitContinues
    \/ \E c \in UpdateCategories, n \in UpdateNames, l \in UpdateLevels,
          w \in BOOLEAN : UpdateSkillLevel(c, n, l, w)
    \/ \E f \in BOOLEAN : LoadFromLocalStorage(f)
    \/ \E dt \in 1..AnimSteps : Frame(dt)

Spec == Init /\ [][Next]_vars

\* The operations that write this.skillsData and the events that settle
\* them, with updates of the records of one category.  Frames are left out:
\* they write statText and raf only, which these operations never read.
NextData ==
    \/ \E order \in ScriptOrders : DOMContentLoaded(order)
    \/ Retry
    \/ \E outcome \in {"reject", "notOk"} : FetchFails(outcome)
    \/ FetchOk
    \/ JsonFails
    \/ \E body \in JsonBodies : JsonParsed(body)
    \/ InitContinues
    \/ \E n \in UpdateNames, l \in UpdateLevels, w \in BOOLEAN :
          UpdateSkillLevel("frontend", n, l, w)
    \/ \E f \in BOOLEAN : LoadFromLocalStorage(f)

SpecData == Init /\ [][NextData]_vars

\* Rendering a record of every level: the two loads of the page, each
\* with a body of one record.
NextTier ==
    \/ \E order \in ScriptOrders : DOMContentLoaded(order)
    \/ FetchOk
    \/ \E body \in TierBodies : JsonParsed(body)
    \/ InitContinues

SpecTier == Init /\ [][NextTier]_vars

\* Bodies for the aggregates: records in three categories, and none at all.
StatsBodies == {ServerDataset, EmptyDataset}

\* Renders, aggregates and count-ups: the two loads of the page, updates
\* of one category, and animation frames.
NextStats ==
    \/ \E order \in ScriptOrders : DOMContentLoaded(order)
    \/ FetchOk
    \/ \E body \in StatsBodies : JsonParsed(body)
    \/ InitContinues
    \/ \E n \in UpdateNames, l \in UpdateLevels :
          UpdateSkillLevel("frontend", n, l, FALSE)
    \/ \E dt \in 1..AnimSteps : Frame(dt)

SpecStats == Init /\ [][NextStats]_vars

\* Every arrival: a stored theme or none, a light or a dark system.
InitPage == InitOn({AttachPoints}, {<<>>}, ThemeStores, BOOLEAN)

\* The theme toggle and the contact form.
NextPage ==
    \/ \E order \in ScriptOrders : DOMContentLoaded(order)
    \/ \E writeFails \in BOOLEAN : ThemeToggleClick(writeFails)
    \/ ColorSchemeChange
    \/ \E valid \in BOOLEAN : Submit(valid)
    \/ \E i \in 1..Len(form.timers), isSuccess \in BOOLEAN :
          SubmissionSettles(i, isSuccess)
    \/ \E i \in 1..Len(form.timers) : HideTimerFires(i)
    \/ \E n \in 1..(HideDelay \div FormTick) : FormTimePasses(n * FormTick)

SpecPage == InitPage /\ [][NextPage]_vars

\* The project grid: the load, its retry, and clicks on the filter buttons
\* once the cards are there.
NextFilter ==
    \/ \E order \in ScriptOrders : DOMContentLoaded(order)
    \/ \E isOk \in BOOLEAN : ProjectsSettle(isOk)
    \/ ProjectsRetry
    \/ \E filter \in FilterButtons :
          projects.pc = "loaded" /\ FilterClick(filter)
    \/ \E i \in 1..Len(projects.timers) : ProjectTimerFires(i)
    \/ \E n \in 1..(HideCardDelay \div GridTick) : GridTimePasses(n * GridTick)

SpecFilter == Init /\ [][NextFilter]_vars

\* Texts an earlier visit may have left under 'portfolio-skills': none, the
\* empty text, a text that is not JSON, and stringified values.
StoredTexts ==
    {<<>>, <<<<>>>>, <<<<Tok("p", "{")>>>>, <<JSONstringify(JsonNull)>>,
     <<JSONstringify(JsonEmptyObject)>>, <<JSONstringify(ServerDataset)>>}

InitStore == InitOn({AttachPoints}, StoredTexts, {<<>>}, {FALSE})

\* Persisting and restoring: one load, updates, saves and restores.
NextStore ==
    \/ \E order \in ScriptOrders : DOMContentLoaded(order)
    \/ FetchFails("reject")
    \/ FetchOk
    \/ JsonParsed(ServerDataset)
    \/ InitContinues
    \/ \E n \in UpdateNames, l \in UpdateLevels, w \in BOOLEAN :
          UpdateSkillLevel("frontend", n, l, w)
    \/ \E w \in BOOLEAN : SaveToLocalStorage(w)
    \/ \E f \in BOOLEAN : LoadFromLocalStorage(f)

SpecStore == InitStore /\ [][NextStore]_vars

\* The visibility side: renders, observers, tab clicks and timers, with one
\* failing and one successful load and one record to update.
NextAnim ==
    \/ \E order \in ScriptOrders : DOMContentLoaded(order)
    \/ FetchFails("reject")
    \/ FetchOk
    \/ JsonParsed(ServerDataset)
    \/ InitContinues
    \/ \E l \in UpdateLevels : UpdateSkillLevel("frontend", "HTML5", l, FALSE)
    \/ \E t \in Tabs : TabClick(t)
    \/ TabTimerFires
    \/ \E o \in 1..Len(observers), cid \in ContainerIds : Intersect(o, cid)
    \/ WidthTimerFires

SpecAnim == Init /\ [][NextAnim]_vars

\* The operations on pages that lack attachment points.
NextDom ==
    \/ \E order \in ScriptOrders : DOMContentLoaded(order)
    \/ \E outcome \in {"reject", "notOk"} : FetchFails(outcome)
    \/ FetchOk
    \/ JsonFails
    \/ \E body \in JsonBodies : JsonParsed(body)
    \/ InitContinues
    \/ \E c \in UpdateCategories, n \in UpdateNames, l \in UpdateLevels,
          w \in BOOLEAN : UpdateSkillLevel(c, n, l, w)
    \/ \E dt \in 1..AnimSteps : Frame(dt)

SpecDom == InitDom /\ [][NextDom]_vars

\* Pages that lack the panels of some tabs.
InitTabs == InitWith({AttachPoints}, {<<>>}, {<<>>}, {FALSE}, {FullNav},
                     SUBSET Tabs)

\* The skills tabs: the load that adds their listeners, clicks, keys and
\* the timers of the clicks.
NextTabs ==
    \/ \E order \in ScriptOrders : DOMContentLoaded(order)
    \/ FetchOk
    \/ JsonParsed(ServerDataset)
    \/ InitContinues
    \/ \E t \in Tabs : TabClick(t)
    \/ \E t \in Tabs, key \in TabKeys : TabKeydown(t, key)
    \/ TabTimerFires

SpecTabs == InitTabs /\ [][NextTabs]_vars

\* Every page: with or without the navigation's elements.
InitNav == InitWith({AttachPoints}, {<<>>}, {<<>>}, {FALSE}, NavPages, {Tabs})

\* The mobile navigation: every event its listeners take.
NextNav ==
    \/ \E order \in ScriptOrders : DOMContentLoaded(order)
    \/ HamburgerClick
    \/ \E outside \in BOOLEAN : OverlayClick(outside)
    \/ \E hasHash \in BOOLEAN : NavLinkClick(hasHash)
    \/ ScrollTimerFires
    \/ \E key \in NavKeys : NavKeydown(key)
    \/ \E outside \in BOOLEAN : DocumentClick(outside)
    \/ \E wide \in BOOLEAN : Resize(wide)
    \/ ResizeTimerFires

SpecNav == InitNav /\ [][NextNav]_vars

\* ------------------------------------------------------------------ claims

\* The level stored for the record updateSkillLevel finds.
LevelOf(data, category, skillName) ==
    LET skills == data.skills[1][category]
    IN skills[FindByName(skills, skillName)].level

\* (category, skillName) names a record of the dataset.
Exists(data, category, skillName) ==
    /\ HasSkills(data)
    /\ category \in DOMAIN data.skills[1]
    /\ FindByName(data.skills[1][category], skillName) # 0

\* This step is a call of updateSkillLevel.
UpdateStep == budget'.updates < budget.updates

\* C1: whenever loadSkillsData() has settled after a rejected fetch, a
\* non-success status or a body that is not JSON, its promise has resolved
\* (not rejected) and this.skillsData equals getFallbackSkillsData().
C1_LoadFailureYieldsFallback ==
    \A i \in 1..Len(calls.loaded) :
        calls.loaded[i].outcome \in FailureOutcomes =>
            /\ ~calls.loaded[i].rejected
            /\ skillsData = getFallbackSkillsData

\* A load has just settled on a body that did not parse, with another call
\* still awaiting its fetch.
C1_Witness ==
    /\ calls.loaded # <<>>
    /\ calls.loaded[1].outcome = "parseError"
    /\ calls.fetch > 0
    /\ skillsData = getFallbackSkillsData

\* C2: whenever loadSkillsData() has settled, whatever the fetch came to,
\* this.skillsData is a populated category set that renderSkills and
\* calculateAndDisplayStats consume without fault.
C2_LoadAlwaysUsable ==
    calls.loaded # <<>> =>
        /\ HasSkills(skillsData)
        /\ ~renderSkills(skillsData, containers, present).threw
        /\ ~calculateAndDisplayStats(skillsData, statText, raf, present).threw

\* C3: no step writes this.skillsData while another operation that writes
\* it is suspended: a load or the catch of init() writes only when it is the
\* one call in flight, updateSkillLevel and loadFromLocalStorage only when no
\* call is in flight.
C3_NoWriteWhileWriterSuspended ==
    [][skillsData' # skillsData =>
          InFlight - (IF calls' # calls THEN 1 ELSE 0) = 0]_vars

\* C4: a call of updateSkillLevel on an existing (category, name) pair
\* returns true and leaves the record's level at min(100, max(0, newLevel));
\* and every level of the dataset stays within [0, 100].
C4_UpdateClamps ==
    /\ [][(UpdateStep /\ Exists(skillsData, last'.category, last'.name)) =>
            /\ last'.ret = "true"
            /\ LevelOf(skillsData', last'.category, last'.name) =
                 (IF last'.level < 0 THEN 0
                  ELSE IF last'.level > 100 THEN 100 ELSE last'.level)]_vars
    /\ [](HasSkills(skillsData) =>
            \A c \in DOMAIN skillsData.skills[1] :
                \A i \in 1..Len(skillsData.skills[1][c]) :
                    skillsData.skills[1][c][i].level \in 0..100)

\* updateSkillLevel("frontend", "HTML5", 150) has stored 100, and
\* updateSkillLevel("frontend", "HTML5", -10) can store 0.
C4_Witness ==
    /\ last.op = "updateSkillLevel"
    /\ last.ret = "true"
    /\ last.level = 150
    /\ LevelOf(skillsData, "frontend", "HTML5") = 100

\* C5: a call of updateSkillLevel whose category is no key of the dataset,
\* or whose name is no record of that category, returns false and leaves the
\* dataset, the stored entry, the containers and the stats as they were.
C5_UnknownTargetReturnsFalse ==
    [][(UpdateStep /\ ~Exists(skillsData, last'.category, last'.name)) =>
          /\ last'.ret = "false"
          /\ UNCHANGED <<skillsData, storage, containers, statText, raf>>]_vars

\* The stat texts `texts` show the aggregates of `data`.
ShowsStats(texts, data) ==
    LET m == data.skills[1] IN
    /\ texts["total-skills"] = [n |-> TotalSkills(m), suffix |-> ""]
    /\ texts["total-years"] = [n |-> TotalYears(m), suffix |-> ""]
    /\ TotalSkills(m) > 0 =>
          texts["avg-proficiency"] = [n |-> Average(m), suffix |-> "%"]

\* The three stat elements show the aggregates of `data`.
StatsShow(data) == ShowsStats(statText, data)

\* C6: once no operation is half-way and every count-up has run out, the
\* stat elements show the aggregates of the current dataset.
C6_StatsFollowData ==
    (Idle /\ raf = <<>> /\ HasSkills(skillsData)) => StatsShow(skillsData)

\* C7: once no operation is half-way and no tab timer is pending, every
\* rendered element that has not been animated yet is tracked by an observer.
C7_RenderedElementsObserved ==
    (Idle /\ tabTimers = 0) =>
        \A e \in AllElements(containers) :
            containers[e[1]][e[2]].fired = 0 =>
                \E o \in 1..Len(observers) : e \in observers[o].targets

\* C8: a rendered element is animated by a visibility callback at most once,
\* and once it has been, no observer tracks it and its opacity is not "0".
C8_OneShotPerElement ==
    \A e \in AllElements(containers) :
        LET el == containers[e[1]][e[2]] IN
        /\ el.fired <= 1
        /\ el.fired = 1 =>
              /\ el.opacity # "0"
              /\ \A o \in 1..Len(observers) : e \notin observers[o].targets

\* C9: when init() has ended after a fetch that rejected, returned a
\* non-success status or an unparsable body, a warning banner (with its
\* Retry button) is in the page.
C9_FailureShowsBanner ==
    (last.op = "init" /\ last.outcome \in FailureOutcomes) => warnings > 0

\* C10: on a page that lacks attachment points no operation raises: init()
\* does not reject, and updateSkillLevel on a category name that is no
\* inherited property does not throw.
C10_AbsentTargetsTolerated ==
    /\ ~(last.op = "init" /\ last.ret = "rejected")
    /\ ~(/\ last.op = "updateSkillLevel"
         /\ last.ret = "threw"
         /\ last.category \notin ObjectPrototypeKeys)

\* The dataset has the shape of section 6: the four categories, each a
\* sequence of records with a level in [0, 100].
ValidDataset(data) ==
    /\ HasSkills(data)
    /\ DOMAIN data.skills[1] = {Categories[i] : i \in 1..Len(Categories)}
    /\ \A c \in DOMAIN data.skills[1] :
          \A i \in 1..Len(data.skills[1][c]) :
              data.skills[1][c][i].level \in 0..100

\* This step is a call of loadFromLocalStorage.
RestoreStep == budget'.restores < budget.restores

\* The step before wrote this.skillsData to the store.
JustSaved ==
    /\ last.op \in {"saveToLocalStorage", "updateSkillLevel"}
    /\ last.outcome = "written"
    /\ last.ret \in {"returned", "true"}

\* C11: a loadFromLocalStorage() that directly follows a successful
\* saveToLocalStorage() of a valid dataset S (no write to the key in
\* between, the store readable) returns true and leaves this.skillsData
\* equal to S.
C11_RoundTrip ==
    [][(RestoreStep /\ JustSaved /\ ValidDataset(skillsData)
          /\ last'.outcome = "read") =>
            /\ last'.ret = "true"
            /\ skillsData' = skillsData]_vars

\* A restore has returned true with the fallback dataset, which only a save
\* of this visit can have put into the store.
C11_Witness ==
    /\ last.op = "loadFromLocalStorage"
    /\ last.ret = "true"
    /\ skillsData = getFallbackSkillsData
    /\ storage = <<JSONstringify(getFallbackSkillsData)>>

\* The call that ended in this step met a failing write.
writeFailedIn(call) == call.outcome = "writeFailed"

\* C16: saveToLocalStorage never raises, and a call of updateSkillLevel on
\* an existing record during which the write fails still returns true,
\* stores the clamped level in memory, leaves the stored entry as it was,
\* and the containers and the stat elements show the changed dataset.
C16_WriteFailureSwallowed ==
    /\ [](last.op = "saveToLocalStorage" => last.ret = "returned")
    /\ [][(UpdateStep /\ Exists(skillsData, last'.category, last'.name)
             /\ writeFailedIn(last')) =>
              /\ last'.ret = "true"
              /\ storage' = storage
              /\ LevelOf(skillsData', last'.category, last'.name) =
                   (IF last'.level < 0 THEN 0
                    ELSE IF last'.level > 100 THEN 100 ELSE last'.level)
              /\ \A c \in DOMAIN skillsData'.skills[1] :
                    LET shown == containers'[ContainerId(c)]
                        skills == skillsData'.skills[1][c]
                    IN /\ Len(shown) = Len(skills)
                       /\ \A i \in 1..Len(skills) :
                             /\ shown[i].name = skills[i].name
                             /\ shown[i].level = skills[i].level
              /\ ShowsStats(statText', skillsData')]_vars

\* updateSkillLevel("frontend", "HTML5", -10) has returned true with the
\* write failed: the level is 0 in memory and nothing is stored.
C16_Witness ==
    /\ last.op = "updateSkillLevel"
    /\ last.outcome = "writeFailed"
    /\ last.ret = "true"
    /\ last.level = -10
    /\ LevelOf(skillsData, "frontend", "HTML5") = 0
    /\ containers["frontend-skills"][1].level = 0
    /\ storage = <<>>

\* The store holds a text that parses to a valid dataset.
StoredDataset ==
    /\ storage # <<>>
    /\ JSONparse(storage[1]).ok
    /\ ValidDataset(JSONparse(storage[1]).val)

\* C17: loadFromLocalStorage returns true, with this.skillsData replaced by
\* the stored dataset, when the store is readable and holds a text that
\* parses to a valid dataset; in every other case (no entry, an unreadable
\* store, a text that is no valid dataset) it returns false and leaves
\* this.skillsData as it was.
C17_RestoreReportsOutcome ==
    [][RestoreStep =>
          IF last'.outcome = "read" /\ StoredDataset
          THEN /\ last'.ret = "true"
               /\ skillsData' = JSONparse(storage[1]).val
          ELSE /\ last'.ret = "false"
               /\ skillsData' = skillsData]_vars

TierLabels == {"Expert", "Advanced", "Intermediate", "Beginner"}

\* The table of section 4.1: `label` is the tier of level L.
TierRule(label, L) ==
    \/ label = "Expert" /\ L >= 90
    \/ label = "Advanced" /\ 75 <= L /\ L <= 89
    \/ label = "Intermediate" /\ 60 <= L /\ L <= 74
    \/ label = "Beginner" /\ L < 60

\* C12: for every integer level L in [0, 100], getProficiencyLabel(L) is
\* the one label the table gives L (Expert from 90, Advanced 75..89,
\* Intermediate 60..74, Beginner below 60), and every rendered technical
\* skill carries that label for its level.
C12_TierLabelPerTable ==
    /\ \A L \in 0..MaxLevel :
          {label \in TierLabels : TierRule(label, L)} = {getProficiencyLabel(L)}
    /\ \A e \in AllElements(containers) :
          LET el == containers[e[1]][e[2]] IN
          el.kind = "skill" =>
              {label \in TierLabels : TierRule(label, el.level)} = {el.label}

\* Records at the three boundaries have been rendered, one after the other
\* load: level 90 as Expert here, after a first load of level 75.
C12_Witness ==
    /\ containers["frontend-skills"] # <<>>
    /\ containers["frontend-skills"][1].level = 90
    /\ containers["frontend-skills"][1].label = "Expert"
    /\ \E k \in 1..Len(raf) : raf[k].el = "avg-proficiency" /\ raf[k].end = 75

\* The records of a category set, as <<category, index>>.
RecordsOf(m) == UNION {{<<c, i>> : i \in 1..Len(m[c])} : c \in DOMAIN m}

\* The sums of level and of the defined years over a set of records.
RECURSIVE LevelSum(_, _), YearSum(_, _)
LevelSum(m, recs) ==
    IF recs = {} THEN 0
    ELSE LET r == CHOOSE x \in recs : TRUE
         IN m[r[1]][r[2]].level + LevelSum(m, recs \ {r})
YearSum(m, recs) ==
    IF recs = {} THEN 0
    ELSE LET r == CHOOSE x \in recs : TRUE
             y == m[r[1]][r[2]].years
         IN (IF y = <<>> THEN 0 ELSE y[1]) + YearSum(m, recs \ {r})

\* C13: whenever a call has run calculateAndDisplayStats on a category set
\* (also one whose categories are all empty) it has ended without fault,
\* total-skills shows the number of records, total-years the sum of the
\* defined years, and with at least one record avg-proficiency shows the
\* integer nearest to the mean level, as a percentage; no valid dataset
\* makes calculateAndDisplayStats throw.
C13_StatsAggregates ==
    /\ last.stats # "threw"
    /\ ValidDataset(skillsData) =>
          ~calculateAndDisplayStats(skillsData, statText, raf, present).threw
    /\ last.stats = "done" =>
          LET m == skillsData.skills[1]
              n == Cardinality(RecordsOf(m))
              P == LevelSum(m, RecordsOf(m))
              avg == statText["avg-proficiency"]
          IN /\ statText["total-skills"] = [n |-> n, suffix |-> ""]
             /\ statText["total-years"] =
                  [n |-> YearSum(m, RecordsOf(m)), suffix |-> ""]
             /\ n > 0 => /\ avg.suffix = "%"
                         /\ 2 * avg.n * n - n <= 2 * P
                         /\ 2 * P <= 2 * avg.n * n + n

\* init() has displayed the aggregates of the empty category set: 0 skills
\* and 0 years after an earlier load with records.
C13_Witness ==
    /\ last.op = "init"
    /\ last.stats = "done"
    /\ skillsData = EmptyDataset
    /\ statText["total-skills"] = [n |-> 0, suffix |-> ""]
    /\ statText["total-years"] = [n |-> 0, suffix |-> ""]

\* The text a stat element ends on when the most recent
\* calculateAndDisplayStats() ran on `data`: the value it counts up to, or
\* the page's own text where it started no count-up and none ran before.
FinalText(s, data) ==
    LET m == data.skills[1] IN
    IF s = "total-skills" THEN [n |-> TotalSkills(m), suffix |-> ""]
    ELSE IF s = "total-years" THEN [n |-> TotalYears(m), suffix |-> ""]
    ELSE IF TotalSkills(m) > 0 THEN [n |-> Average(m), suffix |-> "%"]
    ELSE StaticText

\* C14: once every animation frame has run (no callback is registered)
\* each stat element shows the final value of the most recent
\* calculateAndDisplayStats(), which ran on the current dataset: no
\* intermediate value and no value of a superseded count-up.
C14_CountUpEndsOnFinal ==
    (Idle /\ initialized /\ raf = <<>>) =>
        \A s \in StatIds : statText[s] = FinalText(s, skillsData)

\* What the containers show: the name and level of each fragment, in order.
Shown(conts) ==
    [cid \in ContainerIds |->
        [i \in 1..Len(conts[cid]) |-> <<conts[cid][i].name, conts[cid][i].level>>]]

\* The call that ended in the last step has rendered.
Rendered ==
    \/ last.op = "init" /\ last.ret = "resolved"
    \/ last.op = "updateSkillLevel" /\ last.ret = "true"

\* C15: after every call that renders (the first as well as any later one)
\* each category container holds one fragment per record of its category,
\* in dataset order, and one more renderSkills() on the same dataset would
\* leave the same contents.
C15_RenderIdempotent ==
    Rendered =>
        /\ \A c \in DOMAIN skillsData.skills[1] :
              Shown(containers)[ContainerId(c)] =
                  [i \in 1..Len(skillsData.skills[1][c]) |->
                      <<skillsData.skills[1][c][i].name,
                        skillsData.skills[1][c][i].level>>]
        /\ LET once == renderSkills(skillsData, containers, present).containers
               twice == renderSkills(skillsData, once, present).containers
           IN /\ Shown(once) = Shown(containers)
              /\ twice = once

\* The second init() of the page has rendered the same dataset over the
\* first one's fragments.
C15_Witness ==
    /\ last.op = "init"
    /\ initialized
    /\ InFlight = 0
    /\ skillsData = ServerDataset
    /\ Len(containers["frontend-skills"]) = 2
    /\ Cardinality({k \in 1..Len(raf) : raf[k].el = "avg-proficiency"
                                          /\ raf[k].end = 78}) = 2

\* The filter shows cards of this type: it is 'all', or none of the three
\* types the handler knows, or the card's type.
FilterAdmits(filter, type) ==
    \/ filter = "all"
    \/ filter \notin {"frontend", "backend", "fullstack"}
    \/ filter = type

\* C18: after clicks on the filter buttons, once no 10 ms or 300 ms timer
\* is pending, every project card is displayed (display block, opacity 1)
\* exactly when the most recently clicked filter admits its type, and is
\* hidden (display none) otherwise.
C18_FilterConverges ==
    (/\ projects.active # "none"
     /\ \A k \in 1..Len(projects.timers) :
           projects.timers[k].kind \notin {"show", "hide"}) =>
        \A i \in 1..Len(projects.cards) :
            IF FilterAdmits(projects.active, projects.cards[i].type)
            THEN /\ projects.cards[i].display = "block"
                 /\ projects.cards[i].opacity = "1"
            ELSE projects.cards[i].display = "none"

\* This step is a click on the theme toggle whose setItem succeeded.
ThemeClickStep ==
    /\ last'.op = "themeToggleClick"
    /\ last'.outcome = "written"

\* C19: every click on the theme toggle (the store writable) changes the
\* data-theme attribute from light to dark or from dark to light, and
\* afterwards the attribute, currentTheme and the text stored under
\* 'portfolio-theme' are equal.
C19_ClickFlipsTheme ==
    [][ThemeClickStep =>
          /\ theme.attr \in {"light", "dark"}
          /\ theme'.attr = (IF theme.attr = "light" THEN "dark" ELSE "light")
          /\ theme'.current = theme'.attr
          /\ theme'.store = <<theme'.attr>>]_vars

\* A submission is awaiting simulateFormSubmission.
SubmissionInFlight ==
    \E k \in 1..Len(form.timers) : form.timers[k].kind = "submission"

\* C20: whenever no contact-form submission is in flight the submit button
\* is enabled and shows the label it had before the first submission.
C20_ButtonRestored ==
    ~SubmissionInFlight => (~form.disabled /\ form.text = OriginalLabel)

\* The hamburger's aria-expanded tells an open menu.
NavExpanded == nav.expanded = "true"

\* C21: from a closed mobile menu, after any hamburger clicks, overlay
\* clicks, nav-link clicks, Escape presses, outside clicks and debounced
\* resizes, the open-state indicators agree: aria-expanded of the hamburger
\* is "true" exactly when the hamburger has class active, and so for the
\* menu's class active, the overlay's (if the page has one) and the body's
\* class menu-open.
C21_IndicatorsAgree ==
    nav.ready =>
        /\ NavExpanded <=> nav.hamburgerActive
        /\ NavExpanded <=> nav.menuActive
        /\ nav.hasOverlay => (NavExpanded <=> nav.overlayActive)
        /\ NavExpanded <=> nav.menuOpen

\* The menu, closed by a link click, is open again on a page with an
\* overlay, with a resize timer pending.
C21_Witness ==
    /\ nav.ready
    /\ nav.hasOverlay
    /\ NavExpanded
    /\ nav.resizeTimer
    /\ budget.linkClicks < MaxLinkClicks

\* The tab a click or a key on a tab activates: the tab clicked, the tab
\* itself for Enter and Space, the next tab for ArrowRight and the previous
\* for ArrowLeft, going round at both ends; 0 for any other step.
ActivatedTab(call) ==
    IF call.op = "tabClick" THEN call.tab
    ELSE IF call.op # "tabKeydown" THEN 0
    ELSE IF call.key \in {"Enter", " "} THEN call.tab
    ELSE IF call.key = "ArrowRight"
         THEN (IF call.tab = NumTabs THEN 1 ELSE call.tab + 1)
    ELSE IF call.key = "ArrowLeft"
         THEN (IF call.tab = 1 THEN NumTabs ELSE call.tab - 1)
    ELSE 0

\* C22: after any clicks and Enter, Space, ArrowLeft and ArrowRight presses
\* on tabs, the one tab with class active and aria-selected "true" is the
\* last one activated, and the only panel active and not hidden is that
\* tab's panel, or none on a page without it: a step that activates a tab
\* leaves exactly that, and every other step leaves tabs and panels alone.
C22_LastActivatedTabShown ==
    [][LET t == ActivatedTab(last') IN
       IF t # 0
       THEN /\ tabActive' = {t}
            /\ tabSelected' = {t}
            /\ panelActive' = {t} \cap panels
            /\ panels \ panelHidden' = {t} \cap panels
       ELSE UNCHANGED <<tabActive, tabSelected, panelActive, panelHidden>>]_vars

\* ArrowLeft on the first tab, after another key, has gone round to the
\* last tab, whose panel the page lacks: no panel shows.
C22_Witness ==
    /\ last.op = "tabKeydown"
    /\ last.key = "ArrowLeft"
    /\ last.tab = 1
    /\ budget.tabKeys = 0
    /\ tabActive = {NumTabs}
    /\ tabSelected = {NumTabs}
    /\ NumTabs \notin panels
    /\ panelActive = {}
    /\ panelHidden = panels

====
